---- MODULE Spec2Model ----
(***************************************************************************)
(* A model of binwalk's module core (src/binwalk/core/module.py): the      *)
(* Option/Kwarg descriptors, Module.__init__/main/result, and the Modules  *)
(* orchestrator (execute, run, load, dependencies, argv, kwargs).          *)
(***************************************************************************)
EXTENDS Integers, Sequences, FiniteSets, TLC

(***************************************************************************)
(* Python values.  Every value is a record tagged with its kind, so that   *)
(* values of different kinds can be compared.                              *)
(***************************************************************************)
PyNone == [kind |-> "none"]
PyBool(b) == [kind |-> "bool", b |-> b]
PyStr(s) == [kind |-> "str", s |-> s]
PyInt(n) == [kind |-> "int", n |-> n]
PyFloat(n) == [kind |-> "float", n |-> n]
PyList(items) == [kind |-> "list", items |-> items]
\* A dict whose keys are 0 .. n-1: items[i+1] is the value at key i.
PyDict(items) == [kind |-> "dict", items |-> items]
\* A reference to the module instance objs[id].
PyObj(id) == [kind |-> "obj", id |-> id]

\* Python truthiness (if x: ...).
Truthy(v) ==
  CASE v.kind = "none" -> FALSE
    [] v.kind = "bool" -> v.b
    [] v.kind = "str" -> v.s # ""
    [] v.kind = "int" -> v.n # 0
    [] v.kind = "float" -> v.n # 0
    [] v.kind = "list" -> v.items # <<>>
    [] v.kind = "dict" -> v.items # <<>>
    [] OTHER -> TRUE

\* The empty dict {} as a function with empty domain.
EmptyDict == [x \in {} |-> PyNone]

\* d[k] = v on a dict modelled as a function.
SetItem(d, k, v) == [x \in (DOMAIN d) \cup {k} |-> IF x = k THEN v ELSE d[x]]

(***************************************************************************)
(* Option and Kwarg descriptors.                                           *)
(***************************************************************************)
\* The accepted data types of an option; "None" is a boolean flag.
OptionTypes == {"None", "str", "int", "float", "list", "dict", "BlockFile", "FileIO"}

Option(kwargs_, priority, short, long, type) ==
  [kwargs |-> kwargs_, priority |-> priority, short |-> short, long |-> long,
   type |-> type,
   dtype |-> IF type \in {"FileIO", "FileType", "BlockFile"} THEN "file"
             ELSE IF type \in {"int", "float", "str"} THEN type
             ELSE "str"]

Kwarg(name, default) == [name |-> name, default |-> default]

(***************************************************************************)
(* Conversions applied by argv to a command-line token.                    *)
(***************************************************************************)
\* The value tokens the model supplies on a command line.
ValueTokens == {"7", "0x1A"}

\* int(value, 0): base auto-detection; [ok |-> FALSE] is a ValueError.
IntBase0(s) ==
  CASE s = "7" -> [ok |-> TRUE, n |-> 7]
    [] s = "0x1A" -> [ok |-> TRUE, n |-> 26]
    [] OTHER -> [ok |-> FALSE, n |-> 0]

\* float(value): decimal literals only, a hexadecimal literal is a ValueError.
FloatOf(s) ==
  CASE s = "7" -> [ok |-> TRUE, n |-> 7]
    [] OTHER -> [ok |-> FALSE, n |-> 0]

(***************************************************************************)
(* parser.parse_known_args(argv) over the options registered at lines      *)
(* 528-542: every option with a long flag, store_true when type is None.     *)
(***************************************************************************)
Registered(options) == {i \in 1..Len(options) : options[i].long # ""}

Matches(o, tok) ==
  /\ o.long # ""
  /\ \/ tok = "--" \o o.long
     \/ (o.short # "" /\ tok = "-" \o o.short)

ParserDefaults(options) ==
  [l \in {options[i].long : i \in Registered(options)} |->
     IF options[CHOOSE i \in Registered(options) : options[i].long = l].type = "None"
     THEN PyBool(FALSE) ELSE PyNone]

RECURSIVE ParseFrom(_, _, _, _, _)
ParseFrom(options, tokens, i, args, unknown) ==
  IF i > Len(tokens) THEN [raised |-> "", args |-> args, unknown |-> unknown]
  ELSE LET tok == tokens[i]
           hits == {j \in Registered(options) : Matches(options[j], tok)}
       IN IF hits = {} THEN
            ParseFrom(options, tokens, i + 1, args, Append(unknown, tok))
          ELSE LET o == options[CHOOSE j \in hits : TRUE]
               IN IF o.type = "None" THEN
                    ParseFrom(options, tokens, i + 1,
                              [args EXCEPT ![o.long] = PyBool(TRUE)], unknown)
                  ELSE IF \/ i + 1 > Len(tokens)
                          \/ \E j \in Registered(options) :
                               Matches(options[j], tokens[i + 1]) THEN
                    \* "expected one argument": the parser exits
                    [raised |-> "SystemExit", args |-> args, unknown |-> unknown]
                  ELSE
                    ParseFrom(options, tokens, i + 2,
                              [args EXCEPT ![o.long] = PyStr(tokens[i + 1])], unknown)

parse_known_args(options, tokens) ==
  ParseFrom(options, tokens, 1, ParserDefaults(options), <<>>)

(***************************************************************************)
(* Modules.argv, lines 509-586.                                            *)
(***************************************************************************)
\* Lines 567-581: the write of one kwarg, by the option's type.  st is
\* [raised, kwargs, last_priority]; value is the value to store.
StoreKwarg(st, type, name, value) ==
  LET kw == st.kwargs
      has == name \in DOMAIN kw
  IN CASE type = "int" ->
            IF value.kind = "str" /\ IntBase0(value.s).ok
            THEN [st EXCEPT !.kwargs = SetItem(kw, name, PyInt(IntBase0(value.s).n))]
            ELSE [st EXCEPT !.raised = "ValueError"]
       [] type = "float" ->
            IF value.kind = "str" /\ FloatOf(value.s).ok
            THEN [st EXCEPT !.kwargs = SetItem(kw, name, PyFloat(FloatOf(value.s).n))]
            ELSE [st EXCEPT !.raised = "ValueError"]
       [] type = "dict" ->
            IF ~has THEN [st EXCEPT !.kwargs = SetItem(kw, name, PyDict(<<value>>))]
            ELSE IF kw[name].kind = "dict"
            THEN [st EXCEPT !.kwargs =
                      SetItem(kw, name, PyDict(Append(kw[name].items, value)))]
            ELSE IF kw[name].kind = "list"
            THEN [st EXCEPT !.raised = "IndexError"]
            ELSE [st EXCEPT !.raised = "TypeError"]
       [] type = "list" ->
            IF ~has THEN [st EXCEPT !.kwargs = SetItem(kw, name, PyList(<<value>>))]
            ELSE IF kw[name].kind = "list"
            THEN [st EXCEPT !.kwargs =
                      SetItem(kw, name, PyList(Append(kw[name].items, value)))]
            ELSE [st EXCEPT !.raised = "AttributeError"]
       [] OTHER -> [st EXCEPT !.kwargs = SetItem(kw, name, value)]

\* Line 560: may this option write the kwarg?
\* Variant of the priority test in which an equal priority does not overwrite.
PriorityAllows_Strict(last_priority, name, priority) ==
  name \notin DOMAIN last_priority \/ last_priority[name] < priority

PriorityAllows(last_priority, name, priority) ==
  name \notin DOMAIN last_priority \/ last_priority[name] <= priority

\* Lines 559-581 for one (name, value) item of module_option.kwargs.
ApplyItem(st, o, args, name) ==
  IF st.raised # "" THEN st
  ELSE IF PriorityAllows(st.last_priority, name, o.priority) THEN
    LET value == IF o.type # "None" THEN args[o.long] ELSE o.kwargs[name]
        st1 == [st EXCEPT !.last_priority = SetItem(@, name, o.priority)]
    IN StoreKwarg(st1, o.type, name, value)
  ELSE st

RECURSIVE ApplyItems(_, _, _, _)
ApplyItems(st, o, args, names) ==
  IF names = {} THEN st
  ELSE LET n == CHOOSE x \in names : TRUE
       IN ApplyItems(ApplyItem(st, o, args, n), o, args, names \ {n})

\* Lines 552-555: every kwarg of a BlockFile option receives the unknown tokens.
FileItems(st, o, unknown) ==
  [st EXCEPT !.kwargs =
     [x \in (DOMAIN st.kwargs) \cup (DOMAIN o.kwargs) |->
        IF x \in DOMAIN o.kwargs
        THEN PyList([i \in 1..Len(unknown) |-> PyStr(unknown[i])])
        ELSE st.kwargs[x]]]

\* Line 557: the option was supplied.
Supplied(o, args) ==
  /\ o.long \in DOMAIN args
  /\ args[o.long] # PyNone
  /\ args[o.long] # PyBool(FALSE)

\* Lines 548-581: one option of module.CLI.
ApplyOption(st, o, parsed) ==
  IF st.raised # "" THEN st
  ELSE IF o.type = "BlockFile" THEN FileItems(st, o, parsed.unknown)
  ELSE IF Supplied(o, parsed.args) THEN ApplyItems(st, o, parsed.args, DOMAIN o.kwargs)
  ELSE st

RECURSIVE ApplyOptions(_, _, _, _)
ApplyOptions(st, CLI, i, parsed) ==
  IF i > Len(CLI) THEN st
  ELSE ApplyOptions(ApplyOption(st, CLI[i], parsed), CLI, i + 1, parsed)

\* Lines 583-584.
\* Variant of the default that enables a module no option enabled.
DefaultEnabled_True(kw) ==
  IF "enabled" \in DOMAIN kw THEN kw ELSE SetItem(kw, "enabled", PyBool(TRUE))

DefaultEnabled(kw) ==
  IF "enabled" \in DOMAIN kw THEN kw ELSE SetItem(kw, "enabled", PyBool(FALSE))

\* allCLI: the CLI lists of every module, concatenated (self.list("CLI"));
\* CLI: the CLI list of the requested module; tokens: the argument list.
argv(allCLI, CLI, tokens) ==
  LET parsed == parse_known_args(allCLI, tokens)
      st0 == [raised |-> parsed.raised, kwargs |-> EmptyDict,
              last_priority |-> [x \in {} |-> 0]]
      st == ApplyOptions(st0, CLI, 1, parsed)
  IN [raised |-> st.raised,
      kwargs |-> IF st.raised = "" THEN DefaultEnabled(st.kwargs) ELSE st.kwargs]

(***************************************************************************)
(* State.                                                                  *)
(***************************************************************************)
VARIABLES
  CLI,            \* module type -> its CLI list of Options (class attribute)
  KWARGS,         \* module type -> its KWARGS list of Kwargs (class attribute)
  DEPENDS,        \* module type -> its DEPENDS dict: parameter -> type name
  arguments,      \* Modules.arguments: the active argument list
  loaded_modules, \* Modules.loaded_modules: module type -> instance id
  status,         \* Modules.status: the shared Status counters
  objs,           \* the module instances constructed so far; an id indexes it
  stack,          \* the active Modules.run calls, innermost last
  phase,          \* where Modules.execute is, or how it ended
  todo,           \* execute: the module types list() has still to yield
  orig_arguments, \* execute: its local orig_arguments
  run_modules,    \* execute: its return value
  call,           \* the inputs of a call of a single method
  ret             \* the outcome of that call, or NoCall

vars == <<CLI, KWARGS, DEPENDS, arguments, loaded_modules, status, objs, stack,
          phase, todo, orig_arguments, run_modules, call, ret>>

\* The variables of the orchestrator that a call of a single method leaves alone.
orch == <<loaded_modules, status, stack, phase, todo, orig_arguments, run_modules>>

NoCall == [raised |-> "not called"]

\* The concatenation of every module's CLI list, in the order list() yields.
RECURSIVE AllCLI(_, _)
AllCLI(cli, order) ==
  IF order = <<>> THEN <<>> ELSE cli[Head(order)] \o AllCLI(cli, Tail(order))

\* Status(completed=0, total=0), and Status.clear (lines 345-351).
Status_clear == [completed |-> 0, total |-> 0]

\* The orchestrator before any execute call (Modules.__init__, lines 370-372).
OrchIdle ==
  /\ loaded_modules = EmptyDict
  /\ status = Status_clear
  /\ stack = <<>>
  /\ phase = "idle"
  /\ todo = <<>>
  /\ orig_arguments = <<>>
  /\ run_modules = <<>>

(***************************************************************************)
(* SpecArgv: Modules.argv on one module type whose CLI holds two options   *)
(* that target the same kwarg.                                             *)
(***************************************************************************)
\* Longest argument list supplied to argv.
MaxArgs == 4

Priorities == {10, 50}

\* What an option of type None declares for the key, per option.
OptA(type, priority) ==
  Option([key |-> PyStr("from-alpha")], priority, "a", "alpha", type)
OptB(type, priority) ==
  Option([key |-> PyStr("from-beta")], priority, "", "beta", type)

ArgTokens == {"--alpha", "-a", "--beta", "fw.bin"} \cup ValueTokens

ArgLists == UNION {[1..n -> ArgTokens] : n \in 0..MaxArgs}

InitArgv ==
  /\ \E ta, tb \in OptionTypes, pa, pb \in Priorities :
       CLI = [m \in {"M"} |-> <<OptA(ta, pa), OptB(tb, pb)>>]
  /\ arguments \in ArgLists
  /\ ret = NoCall
  /\ call = "argv"
  /\ KWARGS = [m \in {"M"} |-> <<>>]
  /\ DEPENDS = [m \in {"M"} |-> EmptyDict]
  /\ objs = <<>>
  /\ OrchIdle

ArgvCall ==
  /\ ret = NoCall
  /\ ret' = argv(AllCLI(CLI, <<"M">>), CLI["M"], arguments)
  /\ UNCHANGED <<CLI, KWARGS, DEPENDS, arguments, objs, call>>
  /\ UNCHANGED orch

NextArgv == ArgvCall

SpecArgv == InitArgv /\ [][NextArgv]_vars

(***************************************************************************)
(* Claims about Modules.argv (checked under SpecArgv).                     *)
(***************************************************************************)
ArgvCalled == ret # NoCall

\* The outcome of parse_known_args for the current call.
Parsed == parse_known_args(AllCLI(CLI, <<"M">>), arguments)

\* The option of the module's CLI list with the given priority, when the two
\* priorities differ.
OptionWithPriority(p) ==
  CLI["M"][CHOOSE i \in 1..2 : CLI["M"][i].priority = p]

\* What argv yields when the module's CLI list holds that option alone.
Alone(o) == argv(AllCLI(CLI, <<"M">>), <<o>>, arguments)

\* Both flags are supplied, the priorities are 10 and 50, and each option's
\* value is one its own kind accepts.
BothSupplied ==
  /\ {CLI["M"][1].priority, CLI["M"][2].priority} = {10, 50}
  /\ Parsed.raised = ""
  /\ Supplied(CLI["M"][1], Parsed.args)
  /\ Supplied(CLI["M"][2], Parsed.args)
  /\ Alone(CLI["M"][1]).raised = ""
  /\ Alone(CLI["M"][2]).raised = ""

NoBlockFile == CLI["M"][1].type # "BlockFile" /\ CLI["M"][2].type # "BlockFile"

\* C5 as stated: with priorities 10 and 50 and both flags supplied, the key
\* holds the value of the priority-50 option only, for every kind of option
\* (list and map kinds included), every declaration order and argument order.
\* Stated here for the options that take their value from their own flag.
C5_AsStated ==
  (ArgvCalled /\ BothSupplied /\ NoBlockFile) =>
     /\ ret.raised = ""
     /\ ret.kwargs["key"] = Alone(OptionWithPriority(50)).kwargs["key"]

\* The part of C5 the code satisfies: with priorities 10 and 50 and both flags
\* supplied, the key holds the value of the priority-50 option only, for every
\* declaration order and argument order, when neither option is of the
\* BlockFile kind and the priority-50 option is not a list or map option
\* declared after the priority-10 option.
C5_Priority50Wins ==
  (/\ ArgvCalled /\ BothSupplied /\ NoBlockFile
   /\ \/ OptionWithPriority(50).type \notin {"list", "dict"}
      \/ CLI["M"][1].priority = 50) =>
     /\ ret.raised = ""
     /\ ret.kwargs["key"] = Alone(OptionWithPriority(50)).kwargs["key"]

\* The priority-10 option is declared first and writes a string, the
\* priority-50 option is an integer option supplied first on the command line,
\* and the key holds the integer.
C5_Witness ==
  /\ ArgvCalled /\ BothSupplied
  /\ CLI["M"][1].priority = 10 /\ CLI["M"][1].type = "str"
  /\ CLI["M"][2].type = "int"
  /\ arguments = <<"--beta", "0x1A", "-a", "7">>
  /\ CLI["M"][2].long = "beta"
  /\ ret.kwargs["key"] = PyInt(26)

\* Both flags are supplied, the two options have the same priority, and each
\* option's value is one its own kind accepts.
TiedSupplied ==
  /\ CLI["M"][1].priority = CLI["M"][2].priority
  /\ Parsed.raised = ""
  /\ Supplied(CLI["M"][1], Parsed.args)
  /\ Supplied(CLI["M"][2], Parsed.args)
  /\ Alone(CLI["M"][1]).raised = ""
  /\ Alone(CLI["M"][2]).raised = ""

\* C11 as stated: when two supplied options of the module target the same key
\* with equal priority, the key keeps the value written by the option that
\* comes first in the module's CLI list.
C11_AsStated ==
  (ArgvCalled /\ TiedSupplied /\ NoBlockFile) =>
     /\ ret.raised = ""
     /\ ret.kwargs["key"] = Alone(CLI["M"][1]).kwargs["key"]

\* C11 amended: when two supplied options of the module target the same key
\* with equal priority, the option that comes later in the module's CLI list
\* overwrites the earlier one, so the key holds the later option's value
\* (neither option being of the BlockFile kind, and the later one not being a
\* list or map option, which adds to the earlier value instead).
C11_TieKeepsLastWriter ==
  (/\ ArgvCalled /\ TiedSupplied /\ NoBlockFile
   /\ CLI["M"][2].type \notin {"list", "dict"}) =>
     /\ ret.raised = ""
     /\ ret.kwargs["key"] = Alone(CLI["M"][2]).kwargs["key"]

\* Both options have priority 10; the first is a string option, the second an
\* integer option supplied first on the command line, and the key holds the
\* integer.
C11_Witness ==
  /\ ArgvCalled /\ TiedSupplied
  /\ CLI["M"][1].priority = 10
  /\ CLI["M"][1].type = "str" /\ CLI["M"][2].type = "int"
  /\ arguments = <<"--beta", "0x1A", "-a", "7">>
  /\ ret.kwargs["key"] = PyInt(26)

\* The kinds Option.__init__ treats as file-like (lines 39-41): BlockFile and
\* the raw file handle kinds.
FileLike == {"BlockFile", "FileIO"}

\* No token of the argument list matches a declared option.
NoFlagTokens ==
  \A k \in 1..Len(arguments) : \A n \in 1..Len(CLI["M"]) :
    ~Matches(CLI["M"][n], arguments[k])

\* The list of all unrecognized tokens, in command-line order.
UnknownList ==
  PyList([k \in 1..Len(Parsed.unknown) |-> PyStr(Parsed.unknown[k])])

\* The other option of the CLI list does not write the key itself.
OtherSilent(n) ==
  LET o == CLI["M"][3 - n]
  IN o.type = "BlockFile" \/ ~Supplied(o, Parsed.args)

KeyIsUnknownList ==
  /\ ret.raised = ""
  /\ "key" \in DOMAIN ret.kwargs
  /\ ret.kwargs["key"] = UnknownList

\* C19 as stated: argv rejects no token that matches no declared option, and
\* for an option of any file-like kind (BlockFile or a raw file handle kind)
\* the key it targets is bound to the list of all unrecognized tokens in
\* command-line order.
C19_AsStated ==
  ArgvCalled =>
    /\ NoFlagTokens => (ret.raised = "" /\ Parsed.unknown = arguments)
    /\ \A n \in 1..2 :
         (/\ CLI["M"][n].type \in FileLike
          /\ Parsed.raised = ""
          /\ OtherSilent(n)) => KeyIsUnknownList

\* The part of C19 the code satisfies: argv rejects no token that matches no
\* declared option, and for an option of the BlockFile kind the key it targets
\* is bound to the list of all unrecognized tokens in command-line order.
C19_BlockFileGetsUnknown ==
  ArgvCalled =>
    /\ NoFlagTokens => (ret.raised = "" /\ Parsed.unknown = arguments)
    /\ \A n \in 1..2 :
         (/\ CLI["M"][n].type = "BlockFile"
          /\ Parsed.raised = ""
          /\ OtherSilent(n)) => KeyIsUnknownList

(***************************************************************************)
(* Module instances.  An instance is a record                               *)
(*   cls        its module type                                            *)
(*   attrs      its attributes (name -> value)                             *)
(*   dependency the dependency argument its constructor received            *)
(*   display    the display object it owns: [quiet, log]                   *)
(*   via        who called the Modules.run that constructed it             *)
(*   built      TRUE once its constructor has returned                     *)
(*   hooks      how often each hook or plugin callback was invoked on it   *)
(*   interrupted TRUE once one of its hooks has raised KeyboardInterrupt   *)
(***************************************************************************)
\* Names hasattr finds on every instance through its class (lines 115-338).
ClassAttrs ==
  {"TITLE", "CLI", "KWARGS", "DEPENDS", "HEADER_FORMAT", "RESULT_FORMAT",
   "HEADER", "RESULT", "load", "init", "run", "callback", "validate",
   "result", "error", "header", "footer", "main"}

\* Module.__init__, lines 144-148.
InitAttrs(cls) ==
  [errors |-> PyList(<<>>), results |-> PyList(<<>>), status |-> PyNone,
   name |-> PyStr(cls), plugins |-> [kind |-> "Plugins"]]

hasattr(attrs, k) == k \in DOMAIN attrs \/ k \in ClassAttrs

\* Lines 598-604: every declared Kwarg is set to the supplied value or its default.
RECURSIVE SetDeclared(_, _, _, _)
SetDeclared(attrs, kwlist, i, kw) ==
  IF i > Len(kwlist) THEN attrs
  ELSE LET a == kwlist[i]
           arg_value == IF a.name \in DOMAIN kw THEN kw[a.name] ELSE a.default
       IN SetDeclared(SetItem(attrs, a.name, arg_value), kwlist, i + 1, kw)

\* Line 607: a supplied name is attached only if the instance lacks it.
\* Variant of the attach test that overwrites existing attributes.
AttachAllowed_Always(attrs, k) == TRUE

AttachAllowed(attrs, k) == ~hasattr(attrs, k)

\* Lines 606-608.
AttachRest(attrs, kw) ==
  [k \in (DOMAIN attrs) \cup {n \in DOMAIN kw : AttachAllowed(attrs, n)} |->
     IF k \in DOMAIN kw /\ AttachAllowed(attrs, k) THEN kw[k] ELSE attrs[k]]

\* Modules.kwargs (lines 588-610), reached through process_kwargs (613-622).
process_kwargs(attrs, kwlist, kw) == AttachRest(SetDeclared(attrs, kwlist, 1, kw), kw)

\* Outcomes of a hook (load, init, run) supplied by a module sub-class.
Outcomes == {"ok", "Exception", "KeyboardInterrupt"}

NoHooks ==
  [init |-> 0, run |-> 0, pre_scan |-> 0, post_scan |-> 0, main |-> 0,
   failed |-> <<>>, retval |-> "none"]

\* The exception object a hook raises: its type, and the hook that raised it.
RaisedBy(outcome, hook) == [type |-> outcome, hook |-> hook]

\* The hooks whose call ended with a non-cancellation exception, in order.
Failed(hooks, outcome, hook) ==
  IF outcome = "Exception" THEN [hooks EXCEPT !.failed = Append(@, hook)] ELSE hooks

\* Module.error (lines 269-282): append an Error carrying the exception.
Module_error(attrs, exception) ==
  [attrs EXCEPT !["errors"] =
     PyList(Append(@.items, [kind |-> "Error", exception |-> exception]))]

\* Variant of the hook wrapper that records a keyboard interrupt as an
\* ordinary error instead of re-raising it.
CatchHook_Swallow(attrs, outcome, hook) ==
  IF outcome = "ok" THEN [raised |-> "", attrs |-> attrs]
  ELSE IF attrs["errors"].kind # "list"
  THEN [raised |-> "AttributeError", attrs |-> attrs]
  ELSE [raised |-> "", attrs |-> Module_error(attrs, RaisedBy(outcome, hook))]

\* Variant of the hook wrapper that lets every exception through.
CatchHook_Reraise(attrs, outcome, hook) ==
  IF outcome = "ok" THEN [raised |-> "", attrs |-> attrs]
  ELSE [raised |-> outcome, attrs |-> attrs]

\* Lines 157-162 (and 309-316, 318-324, 328-334 in main): what the try block
\* around a hook does with the hook's outcome: [raised, attrs].
CatchHook(attrs, outcome, hook) ==
  IF outcome = "ok" THEN [raised |-> "", attrs |-> attrs]
  ELSE IF outcome = "KeyboardInterrupt"
  THEN [raised |-> "KeyboardInterrupt", attrs |-> attrs]
  ELSE IF attrs["errors"].kind # "list"
  THEN [raised |-> "AttributeError", attrs |-> attrs]
  ELSE [raised |-> "", attrs |-> Module_error(attrs, RaisedBy(outcome, hook))]

\* The keyword arguments left in **kwargs once the named parameter
\* `dependency` of __init__ (line 143) has taken its own.
RestKwargs(callkw) == [k \in (DOMAIN callkw) \ {"dependency"} |-> callkw[k]]

DependencyArg(callkw) ==
  IF "dependency" \in DOMAIN callkw THEN callkw["dependency"] ELSE PyBool(FALSE)

\* The display a new Configuration-like instance owns: not quiet, logging.
NewDisplay == [quiet |-> FALSE, log |-> "log", shown |-> <<>>]

\* Lines 153-155 on the heap: the display reached through self.config.
QuietDisplay(heap, config) ==
  [heap EXCEPT ![config.id].display.quiet = TRUE,
               ![config.id].display.log = "None"]

\* Module.__init__ (lines 143-164) called as cls(**callkw) with the load hook
\* ending in `load`; `via` records the caller.  Returns [raised, heap, id]:
\* the instance is heap[id], also when the constructor raised.
Module__init__(heap, cls, kwlist, callkw, load, via) ==
  LET id == Len(heap) + 1
      dependency == DependencyArg(callkw)
      attrs1 == process_kwargs(InitAttrs(cls), kwlist, RestKwargs(callkw))
      obj1 == [cls |-> cls, attrs |-> attrs1, dependency |-> Truthy(dependency),
               display |-> NewDisplay, via |-> via, built |-> FALSE,
               hooks |-> Failed(NoHooks, load, "load"),
               interrupted |-> (load = "KeyboardInterrupt")]
      hasConfig == "config" \in DOMAIN attrs1 /\ attrs1["config"].kind = "obj"
      heap1 == Append(heap, obj1)
  IN IF Truthy(dependency) /\ ~hasConfig
     THEN [raised |-> "AttributeError", heap |-> heap1, id |-> id]
     ELSE LET heap2 == IF Truthy(dependency)
                       THEN QuietDisplay(heap1, attrs1["config"]) ELSE heap1
              h == CatchHook(attrs1, load, "load")
          IN [raised |-> h.raised,
              heap |-> [heap2 EXCEPT ![id].attrs = h.attrs,
                                     ![id].built = (h.raised = "")],
              id |-> id]

(***************************************************************************)
(* SpecKwargs: one module type is constructed with a set of named          *)
(* configuration values.                                                   *)
(***************************************************************************)
\* Longest KWARGS list, and the most names supplied to the constructor.
MaxKwargs == 2
MaxSupplied == 2

KwargNames ==
  {"offset", "enabled", "errors", "results", "status", "name", "plugins",
   "config", "dependency", "TITLE"}

Default == PyStr("default")

\* What a caller supplies: a flag, or the Configuration instance objs[1].
SuppliedValues == {PyBool(TRUE), PyObj(1)}

\* KWARGS lists that declare each name once.
KwargLists ==
  {q \in UNION {[1..n -> {Kwarg(nm, Default) : nm \in KwargNames}] :
                  n \in 0..MaxKwargs} :
     \A i, j \in 1..Len(q) : q[i].name = q[j].name => i = j}

SuppliedDicts ==
  UNION {[S -> SuppliedValues] :
           S \in {T \in SUBSET KwargNames : Cardinality(T) <= MaxSupplied}}

\* The Configuration instance the supplied `config` refers to.
ConfigInstance ==
  [cls |-> "Configuration", attrs |-> InitAttrs("Configuration"),
   dependency |-> FALSE, display |-> NewDisplay, via |-> "caller",
   built |-> TRUE, hooks |-> NoHooks, interrupted |-> FALSE]

InitKwargs ==
  /\ KWARGS \in [{"M"} -> KwargLists]
  /\ call \in SuppliedDicts
  /\ ret = NoCall
  /\ objs = <<ConfigInstance>>
  /\ CLI = [m \in {"M"} |-> <<>>]
  /\ DEPENDS = [m \in {"M"} |-> EmptyDict]
  /\ arguments = <<>>
  /\ OrchIdle

\* M(**call), whose load hook returns or raises.
Construct ==
  /\ ret = NoCall
  /\ \E load \in Outcomes :
       LET r == Module__init__(objs, "M", KWARGS["M"], call, load, "caller")
       IN /\ objs' = r.heap
          /\ ret' = [raised |-> r.raised, id |-> r.id]
  /\ UNCHANGED <<CLI, KWARGS, DEPENDS, arguments, call>>
  /\ UNCHANGED orch

NextKwargs == Construct

SpecKwargs == InitKwargs /\ [][NextKwargs]_vars

(***************************************************************************)
(* Claims about the constructor's configuration values (SpecKwargs).       *)
(***************************************************************************)
Constructed == ret # NoCall /\ ret.raised = ""

Declared == {KWARGS["M"][i].name : i \in 1..Len(KWARGS["M"])}

\* The value a declared name must hold: the supplied one, else its default.
Expected(n) == IF n \in DOMAIN call THEN call[n] ELSE Default

HoldsIn(attrs, n, v) == n \in DOMAIN attrs /\ attrs[n] = v

\* C10 as stated: after construction every declared KWARGS name holds the
\* supplied value or its default, and every supplied name that is not declared
\* is an attribute holding the supplied value, whatever the name.
C10_AsStated ==
  Constructed =>
    /\ \A n \in Declared : HoldsIn(objs[ret.id].attrs, n, Expected(n))
    /\ \A n \in (DOMAIN call) \ Declared : HoldsIn(objs[ret.id].attrs, n, call[n])

\* C10 amended: after construction every declared KWARGS name other than
\* `dependency` holds the supplied value or its default; a supplied undeclared
\* name holds the supplied value when it is neither `dependency` nor already an
\* attribute of the instance; a supplied undeclared name that the constructor
\* has already set (errors, results, status, name, plugins) is not given the
\* supplied value but keeps the constructor's, one that names a class attribute
\* is not attached at all, and `dependency` is never taken from the supplied
\* values.
C10_KwargsAssigned ==
  Constructed =>
    LET attrs == objs[ret.id].attrs
    IN /\ \A n \in Declared \ {"dependency"} : HoldsIn(attrs, n, Expected(n))
       /\ \A n \in (DOMAIN call) \ (Declared \cup {"dependency"}) :
            IF hasattr(InitAttrs("M"), n)
            THEN IF n \in DOMAIN InitAttrs("M")
                 THEN /\ attrs[n] # call[n]
                      /\ n # "errors" => attrs[n] = InitAttrs("M")[n]
                 ELSE n \notin DOMAIN attrs
            ELSE HoldsIn(attrs, n, call[n])
       /\ "dependency" \in Declared => attrs["dependency"] = Default
       /\ "dependency" \notin Declared => "dependency" \notin DOMAIN attrs

\* A declared name took its default, another declared name took the supplied
\* value, and an undeclared supplied name was attached.
C10_Witness ==
  /\ Constructed
  /\ Declared = {"offset", "enabled"}
  /\ DOMAIN call = {"enabled", "config"}
  /\ objs[ret.id].attrs["offset"] = Default
  /\ objs[ret.id].attrs["enabled"] = PyBool(TRUE)
  /\ objs[ret.id].attrs["config"] = PyObj(1)

(***************************************************************************)
(* The module types of the orchestrator's specification.                   *)
(***************************************************************************)
\* The module types binwalk.modules exports, in the order Modules.list()
\* yields them (inspect.getmembers sorts by name).
ModuleList == <<"Configuration", "Extractor", "Signature">>

Known == {ModuleList[i] : i \in 1..Len(ModuleList)}

\* The constructor parameter a DEPENDS dict uses for each dependency name;
\* "Missing" is a name binwalk.modules does not export.
TypeOfParam ==
  [config |-> "Configuration", extractor |-> "Extractor",
   signature |-> "Signature", missing |-> "Missing"]

\* The long flag of the option that enables a module type; Configuration
\* declares no option and is never enabled.
FlagOf == [Extractor |-> "extract", Signature |-> "signature"]

OrchCLI ==
  [m \in Known |->
     IF m \in DOMAIN FlagOf
     THEN <<Option([enabled |-> PyBool(TRUE)], 0, "", FlagOf[m], "None")>>
     ELSE <<>>]

OrchKWARGS == [m \in Known |-> <<Kwarg("enabled", PyBool(FALSE))>>]

\* Most DEPENDS entries of one module type.
MaxDeps == 2

DependsDicts ==
  {[p \in P |-> TypeOfParam[p]] :
     P \in {Q \in SUBSET (DOMAIN TypeOfParam) : Cardinality(Q) <= MaxDeps}}

\* The types that m depends on, not counting itself or unknown names.
DepsOf(dep, m) == {dep[m][p] : p \in DOMAIN dep[m]} \cap (Known \ {m})

RECURSIVE Reach(_, _, _)
Reach(dep, S, n) ==
  IF n = 0 THEN S
  ELSE Reach(dep, S \cup UNION {DepsOf(dep, m) : m \in S}, n - 1)

\* Every type m depends on, directly or transitively.
DependsOn(dep, m) == Reach(dep, DepsOf(dep, m), Cardinality(Known))

\* No cycle other than self-dependencies.
Acyclic(dep) == \A m \in Known : m \notin DependsOn(dep, m)

(***************************************************************************)
(* Modules._set_arguments and _parse_api_opt, lines 376-397.               *)
(***************************************************************************)
\* sys.argv[1:]: the process was started without arguments.
SysArgv == <<>>

\* Lines 389-397, on the keys the model passes as keyword arguments.
_parse_api_opt(opt) ==
  CASE opt \in {"--signature", "-s"} -> opt
    [] Len(opt) = 1 -> "-" \o opt
    [] OTHER -> "--" \o opt

\* Lines 377-382 for a dict of at most one keyword.
KargvTokens(kargv) ==
  IF DOMAIN kargv = {} THEN <<>>
  ELSE LET k == CHOOSE x \in DOMAIN kargv : TRUE
           v == kargv[k]
       IN IF v \notin {PyBool(TRUE), PyBool(FALSE), PyNone}
          THEN <<_parse_api_opt(k) \o " " \o v.s>>
          ELSE <<_parse_api_opt(k)>>

\* Lines 376-387: the new value of self.arguments.
_set_arguments(self_arguments, args, kargv) ==
  LET argv_ == args \o KargvTokens(kargv)
  IN IF argv_ = <<>> /\ self_arguments = <<>> THEN SysArgv
     ELSE IF argv_ # <<>> THEN argv_
     ELSE self_arguments

\* Most positional arguments given to Modules(...) or to execute(...).
MaxFlags == 1

FlagTokens == {"--" \o FlagOf[m] : m \in DOMAIN FlagOf}

FlagLists == UNION {[1..n -> FlagTokens] : n \in 0..MaxFlags}

\* The keyword arguments the model passes: none, or one flag.
Kargvs == {EmptyDict, [extract |-> PyBool(TRUE)]}

(***************************************************************************)
(* Module.result, lines 236-267, step by step.  A Result is a record       *)
(* [offset, description, file, valid, display]; file is PyNone or a file.  *)
(***************************************************************************)
\* Result.__init__ (lines 85-93) with the file keyword given.
Result(file) ==
  [offset |-> 0, description |-> "", file |-> file, valid |-> TRUE,
   display |-> TRUE, extract |-> TRUE]

\* The scanned file: its length, read position and start offset.
ScannedFile == [kind |-> "file", length |-> 8, tell |-> 4, offset |-> 0]

\* What a participant (validate, a callback, the plugins) does to r.valid.
FlagWrites == {"keep", "clear", "set"}

Touch(r, w) ==
  CASE w = "clear" -> [r EXCEPT !.valid = FALSE]
    [] w = "set" -> [r EXCEPT !.valid = TRUE]
    [] OTHER -> r

\* Module.validate as the base class defines it (lines 201-211).
DefaultValidate == "set"
\* Module.callback as the base class defines it (lines 191-199).
DefaultCallback == "keep"

\* Line 256: is the Result stored?
Stored(r) == r.valid

\* Lines 256-257: self.results after the call.
StoreResult(attrs, r) ==
  IF Stored(r)
  THEN [attrs EXCEPT !["results"] = PyList(Append(@.items, r))]
  ELSE attrs

\* Lines 259-262: the shared Status after the call.
UpdateStatus(st, r) ==
  IF Stored(r) /\ r.file # PyNone /\ st.total = 0
  THEN [total |-> r.file.length, completed |-> r.file.tell - r.file.offset]
  ELSE st

\* Lines 222-234 with RESULT = ['offset', 'description'].
_build_display_args(r) == <<r.offset, r.description>>

\* Lines 264-267: is the Result forwarded to config.display.result?
Displayed(r) == Stored(r) /\ r.display /\ _build_display_args(r) # <<>>

\* Line 267 on the heap: the display reached through self.config.
ShowResult(heap, config, r) ==
  IF Displayed(r)
  THEN [heap EXCEPT ![config.id].display.shown = Append(@, _build_display_args(r))]
  ELSE heap

\* Line 251: every DEPENDS parameter must be an attribute of the instance.
DependsBound(attrs, depends) == \A p \in DOMAIN depends : hasattr(attrs, p)

(***************************************************************************)
(* The orchestrator: Modules.execute, run, load and dependencies.          *)
(***************************************************************************)
Frame(m, caller, depends) ==
  [module |-> m, caller |-> caller, pc |-> "dependencies",
   pending |-> DOMAIN depends, kwargs |-> EmptyDict, cur |-> "", obj |-> 0]

Top == stack[Len(stack)]
SetTop(f) == [stack EXCEPT ![Len(stack)] = f]
Pop == SubSeq(stack, 1, Len(stack) - 1)

\* d1.update(d2)
Update(d1, d2) ==
  [k \in (DOMAIN d1) \cup (DOMAIN d2) |-> IF k \in DOMAIN d2 THEN d2[k] ELSE d1[k]]

has_key(d, k) == k \in DOMAIN d

\* An exception leaves run, load, dependencies and execute: none catches it.
Raise(e) ==
  /\ phase' = e
  /\ stack' = <<>>

\* Line 502: the cached dependency carries recorded errors.
HasErrors(heap, id) == Truthy(heap[id].attrs["errors"])

\* Line 498: must the dependency be run first?
NeedsRun(lm, dependency) == ~has_key(lm, dependency)

\* Lines 455-456, over the cache in the order of ModuleList.
RECURSIVE EnabledOf(_, _, _)
EnabledOf(heap, lm, order) ==
  IF order = <<>> THEN <<>>
  ELSE LET rest == EnabledOf(heap, lm, Tail(order))
       IN IF has_key(lm, Head(order)) /\ Truthy(heap[lm[Head(order)]].attrs["enabled"])
          THEN <<lm[Head(order)]>> \o rest
          ELSE rest

\* Lines 446-447: the argument set execute works with.
ExecuteArguments(self_arguments, args, kargv) ==
  IF args # <<>> \/ DOMAIN kargv # {}
  THEN _set_arguments(self_arguments, args, kargv)
  ELSE self_arguments

\* Modules(*argv, **kargv), lines 361-374.
Init ==
  /\ CLI = OrchCLI
  /\ KWARGS = OrchKWARGS
  /\ DEPENDS \in {d \in [Known -> DependsDicts] : Acyclic(d)}
  /\ \E args \in FlagLists, kargv \in Kargvs :
       arguments = _set_arguments(<<>>, args, kargv)
  /\ objs = <<>>
  /\ call = "execute"
  /\ ret = NoCall
  /\ OrchIdle

\* execute(*args, **kwargs), lines 443-447.
execute ==
  /\ phase = "idle"
  /\ \E args \in FlagLists, kargv \in Kargvs :
       arguments' = ExecuteArguments(arguments, args, kargv)
  /\ orig_arguments' = arguments
  /\ run_modules' = <<>>
  /\ todo' = ModuleList
  /\ phase' = "running"
  /\ UNCHANGED <<CLI, KWARGS, DEPENDS, loaded_modules, status, objs, stack, call, ret>>

\* Lines 450-451: the next module type of the sweep enters Modules.run.
execute_next ==
  /\ phase = "running" /\ stack = <<>> /\ todo # <<>>
  /\ stack' = <<Frame(Head(todo), "execute", DEPENDS[Head(todo)])>>
  /\ todo' = Tail(todo)
  /\ UNCHANGED <<CLI, KWARGS, DEPENDS, arguments, loaded_modules, status, objs,
                 phase, orig_arguments, run_modules, call, ret>>

\* Lines 453-460: the sweep is over.
execute_return ==
  /\ phase = "running" /\ stack = <<>> /\ todo = <<>>
  /\ run_modules' = EnabledOf(objs, loaded_modules, ModuleList)
  /\ arguments' = orig_arguments
  /\ phase' = "returned"
  /\ UNCHANGED <<CLI, KWARGS, DEPENDS, loaded_modules, status, objs, stack, todo,
                 orig_arguments, call, ret>>

\* Lines 502-505 for the entry `kwarg` of the frame f: [raised, frame].
\* Variant of the dependency check that binds the dependency without
\* looking at its errors.
CheckDependency_Unchecked(f, kwarg, heap, lm, dependency) ==
  [raised |-> "",
   frame |-> [f EXCEPT !.kwargs = SetItem(@, kwarg, PyObj(lm[dependency])),
                       !.pending = @ \ {kwarg}, !.cur = ""]]

CheckDependency(f, kwarg, heap, lm, dependency) ==
  IF HasErrors(heap, lm[dependency])
  THEN [raised |-> "DependencyError", frame |-> f]
  ELSE [raised |-> "",
        frame |-> [f EXCEPT !.kwargs = SetItem(@, kwarg, PyObj(lm[dependency])),
                            !.pending = @ \ {kwarg}, !.cur = ""]]

\* Lines 485-505: one entry of module.DEPENDS.
\* Variant of the skip test that lets a module's own type through.
Skipped_UnknownOnly(module, dependency) == dependency \notin Known

\* Lines 488-496: a DEPENDS entry is passed over when it names a type that
\* binwalk.modules lacks or the module's own type.
Skipped(module, dependency) == dependency \notin Known \/ dependency = module

dependencies ==
  /\ phase = "running" /\ stack # <<>>
  /\ Top.pc = "dependencies" /\ Top.pending # {}
  /\ \E kwarg \in Top.pending :
       LET dependency == DEPENDS[Top.module][kwarg]
       IN IF Skipped(Top.module, dependency) THEN
            /\ stack' = SetTop([Top EXCEPT !.pending = @ \ {kwarg}])
            /\ UNCHANGED phase
          ELSE IF NeedsRun(loaded_modules, dependency) THEN
            \* line 500: self.run(dependency)
            /\ stack' = Append(SetTop([Top EXCEPT !.cur = kwarg]),
                               Frame(dependency, "dependencies", DEPENDS[dependency]))
            /\ UNCHANGED phase
          ELSE
            LET c == CheckDependency(Top, kwarg, objs, loaded_modules, dependency)
            IN IF c.raised # "" THEN Raise(c.raised)
               ELSE stack' = SetTop(c.frame) /\ UNCHANGED phase
  /\ UNCHANGED <<CLI, KWARGS, DEPENDS, arguments, loaded_modules, status, objs,
                 todo, orig_arguments, run_modules, call, ret>>

\* Variant of run that never calls main.
AfterLoad_NoMain(heap, id) == "return"

\* Line 465: run calls main on the new instance only if it is enabled.
AfterLoad(heap, id) ==
  IF Truthy(heap[id].attrs["enabled"]) THEN "main" ELSE "return"

\* Lines 476-478 and 463-465: the keyword arguments are complete, the module
\* is constructed, and run decides whether main is to be called.
load ==
  /\ phase = "running" /\ stack # <<>>
  /\ Top.pc = "dependencies" /\ Top.pending = {}
  /\ LET a == argv(AllCLI(CLI, ModuleList), CLI[Top.module], arguments)
     IN IF a.raised # "" THEN Raise(a.raised) /\ UNCHANGED objs
        ELSE \E hook \in Outcomes :
          LET r == Module__init__(objs, Top.module, KWARGS[Top.module],
                                  Update(a.kwargs, Top.kwargs), hook, Top.caller)
          IN /\ objs' = r.heap
             /\ IF r.raised # "" THEN Raise(r.raised)
                ELSE /\ stack' = SetTop([Top EXCEPT
                            !.obj = r.id,
                            !.pc = AfterLoad(r.heap, r.id)])
                     /\ UNCHANGED phase
  /\ UNCHANGED <<CLI, KWARGS, DEPENDS, arguments, loaded_modules, status, todo,
                 orig_arguments, run_modules, call, ret>>

HasConfig(attrs) == "config" \in DOMAIN attrs /\ attrs["config"].kind = "obj"

\* Module.main, lines 308-326: init, format_strings and the pre-scan hook.
\* Returns [raised, returned, obj]: returned means main has returned False.
MainInit(o, init_hook, format_strings) ==
  LET fmt == IF HasConfig(o.attrs) THEN format_strings ELSE "Exception"
      o0 == [o EXCEPT !.attrs["status"] = [kind |-> "Status"],
                      !.hooks.main = @ + 1, !.hooks.init = @ + 1,
                      !.hooks.retval =
                         IF "Exception" \in {init_hook, IF init_hook = "ok" THEN fmt ELSE "ok"}
                         THEN "False" ELSE @,
                      !.interrupted = \/ init_hook = "KeyboardInterrupt"
                                      \/ (init_hook = "ok" /\ fmt = "KeyboardInterrupt")]
      o1 == [o0 EXCEPT !.hooks = Failed(@, init_hook, "init")]
      h1 == CatchHook(o1.attrs, init_hook, "init")
      h2 == CatchHook(o1.attrs, fmt, "format_strings")
  IN IF init_hook # "ok"
     THEN [raised |-> h1.raised, returned |-> TRUE, obj |-> [o1 EXCEPT !.attrs = h1.attrs]]
     ELSE IF fmt # "ok"
     THEN [raised |-> h2.raised, returned |-> TRUE, obj |-> [o1 EXCEPT !.attrs = h2.attrs]]
     ELSE [raised |-> "", returned |-> FALSE,
           obj |-> [o1 EXCEPT !.hooks.pre_scan = @ + 1]]

\* The run hook reports one Result of the scanned file through self.result
\* (lines 236-267), validate and every callback being the base class's.
\* Returns [raised, heap, status].
EmitResult(heap, id, depends, st) ==
  LET o == heap[id]
      r == Touch(Touch(Result(ScannedFile), DefaultValidate), DefaultCallback)
  IN IF ~DependsBound(o.attrs, depends) \/ ~HasConfig(o.attrs)
     THEN [raised |-> "AttributeError", heap |-> heap, status |-> st]
     ELSE [raised |-> "",
           heap |-> ShowResult([heap EXCEPT ![id].attrs = StoreResult(@, r)],
                               o.attrs["config"], r),
           status |-> UpdateStatus(st, r)]

\* Lines 336: the post-scan hook runs once run has returned.
PostScan(o) == [o EXCEPT !.hooks.post_scan = @ + 1]

\* Module.main, lines 328-338: run (which may report a Result) and the
\* post-scan hook.  Returns [raised, heap, status].
MainRun(heap, id, depends, st, run_hook, emits) ==
  LET heap1 == [heap EXCEPT ![id].hooks.run = @ + 1]
      e == IF emits THEN EmitResult(heap1, id, depends, st)
           ELSE [raised |-> "", heap |-> heap1, status |-> st]
      outcome == IF e.raised # "" THEN "Exception" ELSE run_hook
      h == CatchHook(e.heap[id].attrs, outcome, "run")
      heap2 == [e.heap EXCEPT ![id].attrs = h.attrs,
                              ![id].hooks = Failed(@, outcome, "run"),
                              ![id].hooks.retval =
                                 CASE outcome = "Exception" -> "False"
                                   [] outcome = "ok" -> "retval"
                                   [] OTHER -> @,
                              ![id].interrupted = (outcome = "KeyboardInterrupt")]
  IN [raised |-> h.raised,
      heap |-> IF outcome = "ok" THEN [heap2 EXCEPT ![id] = PostScan(@)] ELSE heap2,
      status |-> e.status]

\* Line 466, first part: obj.main(status) up to the call of run.
main_init ==
  /\ phase = "running" /\ stack # <<>> /\ Top.pc = "main"
  /\ \E init_hook \in Outcomes, format_strings \in Outcomes :
       LET m == MainInit(objs[Top.obj], init_hook, format_strings)
       IN /\ objs' = [objs EXCEPT ![Top.obj] = m.obj]
          /\ IF m.raised # "" THEN Raise(m.raised)
             ELSE /\ stack' = SetTop([Top EXCEPT !.pc =
                                        IF m.returned THEN "mainret" ELSE "run"])
                  /\ UNCHANGED phase
  /\ UNCHANGED <<CLI, KWARGS, DEPENDS, arguments, loaded_modules, status, todo,
                 orig_arguments, run_modules, call, ret>>

\* Line 466, second part: run, the post-scan hook, and main's return.
main_run ==
  /\ phase = "running" /\ stack # <<>> /\ Top.pc = "run"
  /\ \E run_hook \in Outcomes, emits \in BOOLEAN :
       LET m == MainRun(objs, Top.obj, DEPENDS[Top.module], status, run_hook, emits)
       IN /\ objs' = m.heap
          /\ status' = m.status
          /\ IF m.raised # "" THEN Raise(m.raised)
             ELSE /\ stack' = SetTop([Top EXCEPT !.pc = "mainret"])
                  /\ UNCHANGED phase
  /\ UNCHANGED <<CLI, KWARGS, DEPENDS, arguments, loaded_modules, todo,
                 orig_arguments, run_modules, call, ret>>

\* Variant of run that leaves the shared Status as main left it.
AfterMain_Keep(st, pc) == st

\* Lines 465-467: the shared Status once run is past its call of main; pc
\* tells whether main was called.
AfterMain(st, pc) == IF pc = "mainret" THEN Status_clear ELSE st

\* Line 472: the instance is registered under its module type.
Register(lm, module, id) == SetItem(lm, module, id)

\* Lines 467-473: status.clear() after main, the instance is cached, and run
\* returns; a run called from dependencies returns into lines 502-505.
run_return ==
  /\ phase = "running" /\ stack # <<>> /\ Top.pc \in {"return", "mainret"}
  /\ status' = AfterMain(status, Top.pc)
  /\ loaded_modules' = Register(loaded_modules, Top.module, Top.obj)
  /\ IF Top.caller = "execute" THEN stack' = Pop /\ UNCHANGED phase
     ELSE LET parent == stack[Len(stack) - 1]
              c == CheckDependency(parent, parent.cur, objs, loaded_modules',
                                   Top.module)
          IN IF c.raised # "" THEN Raise(c.raised)
             ELSE /\ stack' = [Pop EXCEPT ![Len(stack) - 1] = c.frame]
                  /\ UNCHANGED phase
  /\ UNCHANGED <<CLI, KWARGS, DEPENDS, arguments, objs, todo, orig_arguments,
                 run_modules, call, ret>>

Next ==
  \/ execute
  \/ execute_next
  \/ dependencies
  \/ load
  \/ main_init
  \/ main_run
  \/ run_return
  \/ execute_return

Spec == Init /\ [][Next]_vars

(***************************************************************************)
(* Claims about the orchestrator (checked under Spec).                     *)
(***************************************************************************)
Instances == 1..Len(objs)

InstancesOf(m) == {i \in Instances : objs[i].cls = m}

Ended == phase \notin {"idle", "running"}

\* C1 as stated: within one execute call every module type is constructed at
\* most once, whatever the DEPENDS graph and the enumeration order.
C1_ConstructedOnce == \A m \in Known : Cardinality(InstancesOf(m)) <= 1

\* The DEPENDS entries of m that name another known module type.
RealDeps(m) ==
  {p \in DOMAIN DEPENDS[m] : DEPENDS[m][p] \in Known /\ DEPENDS[m][p] # m}

\* v refers to an instance of type d that carries no recorded error.
SoundDependency(v, d) ==
  /\ v.kind = "obj"
  /\ v.id \in Instances
  /\ objs[v.id].cls = d
  /\ ~HasErrors(objs, v.id)

\* C2: a dependency whose cached instance carries recorded errors is never
\* bound (its examination raises DependencyError instead), and no module is
\* ever constructed unless each of its dependencies was bound to an instance
\* without errors; so a module is not constructed either when a dependency of
\* one of its dependencies has errors.
C2_NoErroredDependency ==
  /\ \A i \in Instances : \A p \in RealDeps(objs[i].cls) :
       /\ p \in DOMAIN objs[i].attrs
       /\ SoundDependency(objs[i].attrs[p], DEPENDS[objs[i].cls][p])
  /\ \A n \in 1..Len(stack) : \A p \in DOMAIN stack[n].kwargs :
       SoundDependency(stack[n].kwargs[p], DEPENDS[stack[n].module][p])
  /\ \A n \in 1..Len(stack) :
       (stack[n].pc # "dependencies") => RealDeps(stack[n].module) \subseteq DOMAIN stack[n].kwargs
  /\ phase = "DependencyError" => \E i \in Instances : HasErrors(objs, i)

\* Configuration depends on Extractor, which depends on Signature, whose load
\* recorded an error: resolving Configuration raised DependencyError out of the
\* nested runs, and neither Extractor nor Configuration was constructed.
C2_Witness ==
  /\ phase = "DependencyError"
  /\ DEPENDS["Configuration"] = [extractor |-> "Extractor"]
  /\ DEPENDS["Extractor"] = [signature |-> "Signature"]
  /\ todo = <<"Extractor", "Signature">>
  /\ \E i \in Instances : objs[i].cls = "Signature" /\ HasErrors(objs, i)
  /\ InstancesOf("Extractor") = {} /\ InstancesOf("Configuration") = {}

\* The module types of which some instance carries a recorded error.
ErroredTypes == {objs[i].cls : i \in {j \in Instances : HasErrors(objs, j)}}

MainCalled(m) == \E i \in InstancesOf(m) : objs[i].hooks.main > 0

\* C3 as stated: when a module records an error or a load fails because a
\* dependency errored, every module type that does not depend on an errored
\* one is still loaded and, if enabled, driven through main, and execute
\* still returns.
C3_IndependentModulesRun ==
  phase \in {"returned", "DependencyError"} =>
    /\ phase = "returned"
    /\ \A m \in Known :
         (DependsOn(DEPENDS, m) \cap ErroredTypes = {}) =>
           /\ has_key(loaded_modules, m)
           /\ Truthy(objs[loaded_modules[m]].attrs["enabled"]) => MainCalled(m)

\* The display an instance reaches through self.config.
QuietAndUnlogged(i) ==
  /\ HasConfig(objs[i].attrs)
  /\ objs[objs[i].attrs["config"].id].display.quiet
  /\ objs[objs[i].attrs["config"].id].display.log = "None"

\* C6 as stated: an instance constructed by the run that dependencies calls
\* received the dependency flag, so its display is quiet and its log cleared.
C6_DependencyIsQuiet ==
  \A i \in Instances :
    (objs[i].via = "dependencies" /\ objs[i].built) =>
      /\ objs[i].dependency
      /\ HasConfig(objs[i].attrs) => QuietAndUnlogged(i)

\* C7: a KeyboardInterrupt raised by a load, init or run hook leaves the
\* constructor or main, run and execute (no frame is left and execute has
\* ended with it), and no Error is recorded for it.
C7_InterruptPropagates ==
  /\ \A i \in Instances :
       objs[i].interrupted => (phase = "KeyboardInterrupt" /\ stack = <<>>)
  /\ \A i \in Instances : \A n \in 1..Len(objs[i].attrs["errors"].items) :
       objs[i].attrs["errors"].items[n].exception.type # "KeyboardInterrupt"
  /\ phase = "KeyboardInterrupt" => \E i \in Instances : objs[i].interrupted

\* The run hook of an enabled module raised KeyboardInterrupt after its load
\* hook had recorded an error: execute ended with the interrupt and the
\* instance still holds that one error only.
C7_Witness ==
  /\ phase = "KeyboardInterrupt"
  /\ \E i \in Instances :
       /\ objs[i].interrupted
       /\ objs[i].hooks.run = 1
       /\ Len(objs[i].attrs["errors"].items) = 1

\* C8 as stated: however execute ends, self.arguments is what it was
\* immediately before the call.
C8_ArgumentsRestored == Ended => arguments = orig_arguments

\* Some supplied option of m's own CLI list sets the enabled key.
EnabledBySupplied(m) ==
  LET parsed == parse_known_args(AllCLI(CLI, ModuleList), arguments)
  IN \E n \in 1..Len(CLI[m]) :
       /\ "enabled" \in DOMAIN CLI[m][n].kwargs
       /\ Supplied(CLI[m][n], parsed.args)

RECURSIVE SeqToSet(_)
SeqToSet(q) == IF q = <<>> THEN {} ELSE {Head(q)} \cup SeqToSet(Tail(q))

\* C9: while execute runs, an instance of a type whose enabled key no supplied
\* option of its own CLI list sets has enabled = false and no init, run or
\* main call; main is only ever called on enabled instances; and the list
\* execute returns holds exactly the cached instances whose enabled is true.
C9_EnabledOnly ==
  /\ phase = "running" =>
       \A i \in Instances :
         ~EnabledBySupplied(objs[i].cls) =>
           /\ objs[i].attrs["enabled"] = PyBool(FALSE)
           /\ objs[i].hooks.main = 0 /\ objs[i].hooks.init = 0
           /\ objs[i].hooks.run = 0
  /\ \A i \in Instances :
       objs[i].hooks.main + objs[i].hooks.init + objs[i].hooks.run > 0 =>
         Truthy(objs[i].attrs["enabled"])
  /\ phase = "returned" =>
       SeqToSet(run_modules) =
         {loaded_modules[m] : m \in {t \in DOMAIN loaded_modules :
                                 Truthy(objs[loaded_modules[t]].attrs["enabled"])}}

\* execute returned one enabled module that went through main, and cached a
\* module that no option enabled and that never entered main.
C9_Witness ==
  /\ phase = "returned"
  /\ Len(run_modules) = 1
  /\ objs[run_modules[1]].hooks.run = 1
  /\ \E m \in DOMAIN loaded_modules :
       /\ objs[loaded_modules[m]].attrs["enabled"] = PyBool(FALSE)
       /\ objs[loaded_modules[m]].hooks.main = 0
       /\ m \in DOMAIN FlagOf

(***************************************************************************)
(* SpecResult: Module.result calls on one producer module, objs[3], whose  *)
(* collaborators are the Configuration instance objs[1] and the Extractor  *)
(* instance objs[2].  `call` holds the call in flight:                     *)
(*   pc       the next step, "done" after a return, "raised" after a raise *)
(*   r        the Result                                                   *)
(*   pending  the DEPENDS parameters whose callback is still to come       *)
(*   log      the participants invoked so far, in order                    *)
(*   vetoed   validate or a dependency callback has set r.valid to false   *)
(*   before   the lengths of self.results and of the display's output at   *)
(*            entry                                                        *)
(*   n        the number of result calls made                              *)
(***************************************************************************)
\* Most Module.result calls in one behaviour.
MaxResults == 2

Producer == 3

Collaborator(cls) ==
  [cls |-> cls, attrs |-> InitAttrs(cls), dependency |-> FALSE,
   display |-> NewDisplay, via |-> "caller", built |-> TRUE, hooks |-> NoHooks,
   interrupted |-> FALSE]

\* The producer after construction: its known collaborators are bound, a
\* DEPENDS entry naming a type binwalk.modules lacks is not (lines 488-492),
\* and neither is one naming the producer's own type M (lines 495-496).
ProducerInstance(depends) ==
  [Collaborator("M") EXCEPT
     !.attrs = [k \in (DOMAIN InitAttrs("M")) \cup
                      {p \in DOMAIN depends : depends[p] \in Known} |->
                  IF k \in DOMAIN InitAttrs("M") THEN
                    (IF k = "status" THEN [kind |-> "Status"] ELSE InitAttrs("M")[k])
                  ELSE IF k = "config" THEN PyObj(1) ELSE PyObj(2)]]

ProducerDepends ==
  {[config |-> "Configuration"],
   [config |-> "Configuration", extractor |-> "Extractor"],
   [config |-> "Configuration", missing |-> "Missing"],
   [config |-> "Configuration", producer |-> "M"]}

NoResultCall ==
  [pc |-> "idle", r |-> Result(PyNone), pending |-> {}, log |-> <<>>,
   vetoed |-> FALSE, before |-> [results |-> 0, shown |-> 0], n |-> 0]

InitResult ==
  /\ DEPENDS \in [{"M"} -> ProducerDepends]
  /\ objs = <<Collaborator("Configuration"), Collaborator("Extractor"),
              ProducerInstance(DEPENDS["M"])>>
  /\ call = NoResultCall
  /\ status = Status_clear
  /\ CLI = [m \in {"M"} |-> <<>>]
  /\ KWARGS = [m \in {"M"} |-> <<>>]
  /\ arguments = <<>>
  /\ loaded_modules = EmptyDict
  /\ stack = <<>> /\ phase = "idle" /\ todo = <<>>
  /\ orig_arguments = <<>> /\ run_modules = <<>>
  /\ ret = NoCall

ResultFrame ==
  <<CLI, KWARGS, DEPENDS, arguments, loaded_modules, stack, phase, todo,
    orig_arguments, run_modules, ret>>

Shown == objs[1].display.shown

\* Lines 245-246: result(r) with an existing Result, or result(**kwargs).
result ==
  /\ call.pc \in {"idle", "done", "raised"}
  /\ call.n < MaxResults
  /\ \E valid \in BOOLEAN, display \in BOOLEAN, file \in {PyNone, ScannedFile} :
       call' = [pc |-> "validate",
                r |-> [Result(file) EXCEPT !.valid = valid, !.display = display],
                pending |-> DOMAIN DEPENDS["M"], log |-> <<>>, vetoed |-> FALSE,
                before |-> [results |-> Len(objs[Producer].attrs["results"].items),
                            shown |-> Len(Shown)],
                n |-> call.n + 1]
  /\ UNCHANGED <<objs, status>>
  /\ UNCHANGED ResultFrame

\* Line 248: self.validate(r); a sub-class may override validate.
validate ==
  /\ call.pc = "validate"
  /\ \E w \in FlagWrites :
       call' = [call EXCEPT !.r = Touch(@, w), !.pc = "callbacks",
                            !.log = Append(@, "validate"),
                            !.vetoed = (w = "clear")]
  /\ UNCHANGED <<objs, status>>
  /\ UNCHANGED ResultFrame

\* Lines 250-252: the callback of one DEPENDS collaborator.
callback ==
  /\ call.pc = "callbacks" /\ call.pending # {}
  /\ \E attribute \in call.pending, w \in FlagWrites :
       IF ~hasattr(objs[Producer].attrs, attribute)
       THEN call' = [call EXCEPT !.pc = "raised"]
       ELSE call' = [call EXCEPT !.r = Touch(@, w),
                                 !.pending = @ \ {attribute},
                                 !.log = Append(@, attribute),
                                 !.vetoed = @ \/ (w = "clear")]
  /\ UNCHANGED <<objs, status>>
  /\ UNCHANGED ResultFrame

\* Line 254: the plugins' per-result callback.
_plugins_result ==
  /\ call.pc = "callbacks" /\ call.pending = {}
  /\ \E w \in FlagWrites :
       call' = [call EXCEPT !.r = Touch(@, w), !.pc = "store",
                            !.log = Append(@, "plugins")]
  /\ UNCHANGED <<objs, status>>
  /\ UNCHANGED ResultFrame

\* Lines 256-267: storage, progress status and display.
store ==
  /\ call.pc = "store"
  /\ objs' = ShowResult([objs EXCEPT ![Producer].attrs = StoreResult(@, call.r)],
                        objs[Producer].attrs["config"], call.r)
  /\ status' = UpdateStatus(status, call.r)
  /\ call' = [call EXCEPT !.pc = "done",
                          !.log = @ \o (IF Stored(call.r) THEN <<"store">> ELSE <<>>)
                                    \o (IF Displayed(call.r) THEN <<"display">> ELSE <<>>)]
  /\ UNCHANGED ResultFrame

NextResult ==
  \/ result
  \/ validate
  \/ callback
  \/ _plugins_result
  \/ store

SpecResult == InitResult /\ [][NextResult]_vars

(***************************************************************************)
(* Claims about Module.result (checked under SpecResult).                  *)
(***************************************************************************)
AppendedByCall ==
  Len(objs[Producer].attrs["results"].items) > call.before.results

DisplayedByCall == Len(Shown) > call.before.shown

\* C4 as stated: once validate or a dependency callback has set valid to
\* false during a result call, the call neither appends the Result to
\* self.results nor forwards it to the display, whatever the later
\* participants do.
C4_VetoIsFinal ==
  (call.pc = "done" /\ call.vetoed) => (~AppendedByCall /\ ~DisplayedByCall)

\* The DEPENDS parameters of the producer that are bound to a collaborator.
BoundParams ==
  {p \in DOMAIN DEPENDS["M"] : hasattr(objs[Producer].attrs, p)}

ResultCallEnded == call.pc \in {"done", "raised"}

\* The log is: validate, one callback per parameter of `params` (in any
\* order), the plugin callback, then storage and display if they happened.
InFixedOrder(log, params) ==
  LET n == Cardinality(params)
  IN /\ Len(log) >= n + 2
     /\ log[1] = "validate"
     /\ {log[i] : i \in 2..(n + 1)} = params
     /\ log[n + 2] = "plugins"
     /\ SubSeq(log, n + 3, Len(log)) \in
          {<<>>, <<"store">>, <<"store", "display">>}

\* C12 as stated: every result call invokes validate, then the callback of
\* each DEPENDS collaborator, then the plugin callback, each exactly once, then
\* stores and displays, also when an earlier participant cleared valid.
C12_FixedOrder == ResultCallEnded => InFixedOrder(call.log, BoundParams)

\* The part of C12 the code satisfies: a result call on a producer all of
\* whose DEPENDS parameters are bound attributes ends in that fixed order,
\* whatever the participants do to valid.
C12_FixedOrderWhenBound ==
  (ResultCallEnded /\ BoundParams = DOMAIN DEPENDS["M"]) =>
     /\ call.pc = "done"
     /\ InFixedOrder(call.log, DOMAIN DEPENDS["M"])

\* validate cleared valid, and both collaborators' callbacks and the plugin
\* callback were still invoked.
C12_Witness ==
  /\ call.pc = "done" /\ call.vetoed
  /\ DOMAIN DEPENDS["M"] = {"config", "extractor"}
  /\ call.log[1] = "validate" /\ call.log[4] = "plugins"
  /\ ~call.r.valid


(***************************************************************************)
(* Claims about the hooks' exceptions and main (checked under Spec).      *)
(***************************************************************************)
HookNames == {"load", "init", "run"}

\* The hooks named by the Errors of instance i that carry a hook's exception,
\* in the order the Errors were appended.
HookErrors(i) ==
  LET es == SelectSeq(objs[i].attrs["errors"].items,
                      LAMBDA e : e.exception.hook \in HookNames)
  IN [n \in 1..Len(es) |-> es[n].exception.hook]

\* C13: a non-cancellation exception raised by a load, init or run hook does
\* not leave the constructor or main and is recorded as exactly one Error
\* carrying it; when load raises, the constructor still completes; when init
\* raises, main returns False and neither the pre-scan hook, run nor the
\* post-scan hook is invoked; when run raises, main returns False.
C13_HookErrorsRecorded ==
  /\ phase \notin {"Exception", "AttributeError"}
  /\ \A i \in Instances :
       LET h == objs[i].hooks
           failed == SeqToSet(h.failed)
       IN /\ HookErrors(i) = h.failed
          /\ "load" \in failed => objs[i].built
          /\ "init" \in failed =>
               /\ h.retval = "False"
               /\ h.pre_scan = 0 /\ h.run = 0 /\ h.post_scan = 0
          /\ "run" \in failed => h.retval = "False"

\* execute returned after one module's load and init hooks both raised and
\* another module's run hook raised: each exception is one recorded Error.
C13_Witness ==
  /\ phase = "returned"
  /\ \E i, j \in Instances :
       /\ objs[i].hooks.failed = <<"load", "init">>
       /\ Len(objs[i].attrs["errors"].items) = 2
       /\ objs[j].hooks.failed = <<"run">>
       /\ Len(objs[j].attrs["errors"].items) = 1


\* main has returned on instance i (it returned run's value, or False).
MainReturned(i) == objs[i].hooks.retval # "none"

\* C14 as stated: a main call that reached run and has returned had the
\* pre-scan hook invoked exactly once and the post-scan hook exactly once,
\* also when run ended with a recorded exception; main never returns with the
\* pre-scan hook invoked and the post-scan hook not.
C14_PostScanFollowsPreScan ==
  \A i \in Instances :
    MainReturned(i) =>
      /\ objs[i].hooks.run > 0 =>
           (objs[i].hooks.pre_scan = 1 /\ objs[i].hooks.post_scan = 1)
      /\ objs[i].hooks.pre_scan = objs[i].hooks.post_scan

\* The part of C14 the code satisfies: a main call whose run hook returned
\* normally had the pre-scan hook and the post-scan hook invoked exactly once
\* each; a main call that did not reach run invoked the post-scan hook never.
C14_PostScanAfterNormalRun ==
  \A i \in Instances :
    /\ objs[i].hooks.retval = "retval" =>
         (objs[i].hooks.pre_scan = 1 /\ objs[i].hooks.run = 1
          /\ objs[i].hooks.post_scan = 1)
    /\ objs[i].hooks.run = 0 => objs[i].hooks.post_scan = 0
    /\ objs[i].hooks.run > 0 => objs[i].hooks.pre_scan = 1


\* The orchestrator is about to call main on the instance of the top frame.
AtMainEntry == stack # <<>> /\ Top.pc = "main"

\* C15: at entry to every main call the orchestrator makes within an execute
\* call, the shared Status counters completed and total are both zero,
\* whatever the modules run before have written and whether their main
\* returned run's value or False.
C15_StatusZeroAtMainEntry ==
  AtMainEntry => (status.completed = 0 /\ status.total = 0)

\* main is about to be called on one module after another module's main has
\* stored a Result of the scanned file, which set the Status counters.
C15_Witness ==
  /\ AtMainEntry
  /\ \E i \in Instances :
       /\ objs[i].hooks.main = 1
       /\ Len(objs[i].attrs["results"].items) = 1
       /\ UpdateStatus(Status_clear, objs[i].attrs["results"].items[1]).total > 0


\* The position of a module type in the order execute enumerates.
PosOf(m) == CHOOSE k \in 1..Len(ModuleList) : ModuleList[k] = m

\* The cached instance of m holds, for its bound DEPENDS parameter p, the
\* very instance the cache holds for the dependency type.
HoldsCached(m, p) ==
  objs[loaded_modules[m]].attrs[p] = PyObj(loaded_modules[DEPENDS[m][p]])

\* C20 as stated: when execute returns normally, every cached instance holds,
\* for every bound DEPENDS entry of its type, the identical instance that
\* loaded_modules holds for the dependency type.
C20_CollaboratorIsCached ==
  phase = "returned" =>
    \A m \in DOMAIN loaded_modules :
      \A p \in RealDeps(m) \cap DOMAIN objs[loaded_modules[m]].attrs :
        HoldsCached(m, p)

\* The part of C20 the code satisfies: the collaborator is the cached
\* instance for every DEPENDS entry whose dependency type execute enumerates
\* before the dependent type.
C20_CachedWhenEnumeratedFirst ==
  phase = "returned" =>
    \A m \in DOMAIN loaded_modules :
      \A p \in RealDeps(m) \cap DOMAIN objs[loaded_modules[m]].attrs :
        PosOf(DEPENDS[m][p]) < PosOf(m) => HoldsCached(m, p)

(***************************************************************************)
(* SpecTwice: execute is called again on the same Modules object after it  *)
(* has returned.  `call` counts the execute calls and keeps the size of    *)
(* the heap at the start of the latest one: an instance constructed by     *)
(* that call has a larger index.                                           *)
(***************************************************************************)
\* Most execute calls on one Modules object.
MaxExecutes == 2

\* The DEPENDS declarations of SpecTwice: at most one entry over all module
\* types, naming a known type.
TwiceDepends ==
  {d \in [Known -> DependsDicts] :
     /\ Acyclic(d)
     /\ Cardinality(UNION {{<<m, p>> : p \in DOMAIN d[m]} : m \in Known}) <= 1
     /\ \A m \in Known : "missing" \notin DOMAIN d[m]}

InitTwice ==
  /\ CLI = OrchCLI
  /\ KWARGS = OrchKWARGS
  /\ DEPENDS \in TwiceDepends
  /\ \E args \in FlagLists, kargv \in Kargvs :
       arguments = _set_arguments(<<>>, args, kargv)
  /\ objs = <<>>
  /\ call = [n |-> 0, first |-> 0]
  /\ ret = NoCall
  /\ OrchIdle

\* execute(*args, **kwargs), lines 443-447, on a Modules object that is new
\* or whose previous execute call has returned.
execute_again ==
  /\ phase \in {"idle", "returned"}
  /\ call.n < MaxExecutes
  /\ call' = [n |-> call.n + 1, first |-> Len(objs)]
  /\ \E args \in FlagLists, kargv \in Kargvs :
       arguments' = ExecuteArguments(arguments, args, kargv)
  /\ orig_arguments' = arguments
  /\ run_modules' = <<>>
  /\ todo' = ModuleList
  /\ phase' = "running"
  /\ UNCHANGED <<CLI, KWARGS, DEPENDS, loaded_modules, status, objs, stack, ret>>

NextTwice ==
  \/ execute_again
  \/ execute_next
  \/ dependencies
  \/ load
  \/ main_init
  \/ main_run
  \/ run_return
  \/ execute_return

SpecTwice == InitTwice /\ [][NextTwice]_vars

\* Instance i was constructed during the latest execute call.
FromThisCall(i) == i > call.first

\* C16 as stated: in the second execute call on a Modules object, no instance
\* constructed during the first call is bound as a DEPENDS collaborator of an
\* instance constructed during the second, and the list the second call
\* returns holds only instances constructed during the second call.
C16_CachePerExecute ==
  call.n = 2 =>
    /\ \A i \in Instances : FromThisCall(i) =>
         \A p \in RealDeps(objs[i].cls) \cap DOMAIN objs[i].attrs :
           FromThisCall(objs[i].attrs[p].id)
    /\ phase = "returned" =>
         \A k \in 1..Len(run_modules) : FromThisCall(run_modules[k])

\* The part of C16 the code satisfies: the list a second execute call returns
\* holds only instances constructed during that call.
C16_ReturnsOwnInstances ==
  (call.n = 2 /\ phase = "returned") =>
     \A k \in 1..Len(run_modules) : FromThisCall(run_modules[k])


\* Instance i is inside main: main was called and has neither returned nor
\* been left by an interrupt.
InMain(i) ==
  /\ objs[i].hooks.main > 0
  /\ objs[i].hooks.retval = "none"
  /\ ~objs[i].interrupted

\* Instance d was constructed before instance i, its constructor completed,
\* and if it is enabled its main call has returned.
CompletedBefore(d, i) ==
  /\ d < i
  /\ objs[d].built
  /\ Truthy(objs[d].attrs["enabled"]) =>
       (objs[d].hooks.main = 1 /\ MainReturned(d))

\* C17: the instance bound for a DEPENDS entry that names another known type
\* has completed its construction and, if enabled, its whole main call before
\* the dependent's constructor begins (also while it is still held for a
\* constructor call to come), and no two instances are inside main at once.
C17_DependenciesCompleteFirst ==
  /\ \A i \in Instances :
       \A p \in RealDeps(objs[i].cls) \cap DOMAIN objs[i].attrs :
         /\ objs[i].attrs[p].kind = "obj"
         /\ CompletedBefore(objs[i].attrs[p].id, i)
  /\ \A n \in 1..Len(stack) : \A p \in DOMAIN stack[n].kwargs :
       CompletedBefore(stack[n].kwargs[p].id, Len(objs) + 1)
  /\ Cardinality({i \in Instances : InMain(i)}) <= 1

\* Signature was constructed with the enabled Extractor instance as its
\* collaborator, after that instance's main had returned run's value.
C17_Witness ==
  \E i \in InstancesOf("Signature") :
    /\ "extractor" \in DOMAIN objs[i].attrs
    /\ objs[i].attrs["extractor"].kind = "obj"
    /\ objs[objs[i].attrs["extractor"].id].hooks.retval = "retval"
    /\ objs[objs[i].attrs["extractor"].id].attrs["enabled"] = PyBool(TRUE)


(***************************************************************************)
(* SpecLive: Spec with the orchestrator never stopping half-way.  The      *)
(* program is sequential and every hook terminates, so a step that is      *)
(* possible is eventually taken.                                           *)
(***************************************************************************)
\* The DEPENDS declarations of SpecLive: every type declares at most one
\* entry, which may name the type itself, another type or a missing one.
LiveDepends ==
  {d \in [Known -> DependsDicts] :
     Acyclic(d) /\ \A m \in Known : Cardinality(DOMAIN d[m]) <= 1}

InitLive ==
  /\ CLI = OrchCLI
  /\ KWARGS = OrchKWARGS
  /\ DEPENDS \in LiveDepends
  /\ arguments = _set_arguments(<<>>, <<>>, EmptyDict)
  /\ objs = <<>>
  /\ call = "execute"
  /\ ret = NoCall
  /\ OrchIdle

\* load can take a step exactly when the top frame has resolved every DEPENDS
\* entry: it then constructs the module or raises.
LoadReady ==
  phase = "running" /\ stack # <<>> /\ Top.pc = "dependencies" /\ Top.pending = {}

\* Weak fairness of load, written with LoadReady for ENABLED <<load>>_vars.
FairLoad == []<>(~LoadReady) \/ []<><<load>>_vars

SpecLive ==
  /\ InitLive /\ [][Next]_vars
  /\ WF_vars(execute) /\ WF_vars(execute_next) /\ WF_vars(dependencies)
  /\ WF_vars(main_init) /\ WF_vars(main_run) /\ WF_vars(run_return)
  /\ WF_vars(execute_return)
  /\ FairLoad

\* The DEPENDS parameters of m that name m itself.
SelfParams(m) == {p \in DOMAIN DEPENDS[m] : DEPENDS[m][p] = m}

\* A DEPENDS entry naming the module's own type starts no run of that type
\* from within its own resolution, binds no collaborator for its parameter,
\* and no DependencyError arises while no instance carries an error.
SelfDependencySkipped ==
  /\ \A n \in 2..Len(stack) : stack[n].module # stack[n - 1].module
  /\ \A n \in 1..Len(stack) :
       SelfParams(stack[n].module) \cap DOMAIN stack[n].kwargs = {}
  /\ \A i \in Instances :
       SelfParams(objs[i].cls) \cap DOMAIN objs[i].attrs = {}
  /\ phase = "DependencyError" => ErroredTypes # {}

\* C18: with a DEPENDS graph whose only cycles are self-dependencies and
\* hooks that terminate, every execute call (and every run call within it)
\* ends, by returning or raising; and a self-dependency is skipped.
C18_Terminates ==
  /\ []SelfDependencySkipped
  /\ (phase = "running") ~> Ended
  /\ [](phase = "running" => <>(stack = <<>>))

\* execute returned after constructing a module type whose DEPENDS names the
\* type itself, and the instance has no attribute for that parameter.
C18_Witness ==
  /\ phase = "returned"
  /\ \E i \in Instances :
       /\ SelfParams(objs[i].cls) # {}
       /\ SelfParams(objs[i].cls) \cap DOMAIN objs[i].attrs = {}

====
